---- MODULE Spec2Model ----
(***************************************************************************)
(* Model of src/ga.py: the Population / Individual classes of the          *)
(* generational evolutionary-algorithm engine.                             *)
(*                                                                         *)
(* An Individual is a record [gen, feature_set, key, fitness]; fitness is  *)
(* <<>> while unset (None) and <<n>> once computed, n being the numerator  *)
(* of the fitness over the denominator target (fitness = n / target).      *)
(* The exact store _uniq_dht is a function from keys to Individuals; an    *)
(* Individual object held in the store is identified by its key, which     *)
(* never changes after Individual.populate.                                *)
(* Histogram bins are integers: round(fitness, hist_granularity) times     *)
(* 10^hist_granularity.                                                    *)
(***************************************************************************)
EXTENDS Integers, Sequences, FiniteSets, TLC

(***************************************************************************)
(* Program constants (class Individual, Population.__init__ defaults)      *)
(***************************************************************************)
target == 231
length == 5
min == 0
max == 100
hist_granularity == 3

(***************************************************************************)
(* Bounds of the model                                                     *)
(***************************************************************************)
\* n_pop, the desired population size given to the constructor
NPop == 3
\* the random draws of randint(min, max) are taken from RandLo .. RandLo+NumVals-1
RandLo == 46
NumVals == 2
\* the driver runs at most MaxGen generations
MaxGen == 2
\* the driver makes at most MaxCalls direct calls of reify, evict, mutate, breed
MaxCalls == 2
\* size of the approximate filter and number of probes per key
NumBits == 5
NumProbes == 2
\* selection rates are n / RateDen, n in 1 .. RateDen
RateDen == 3
\* mutation rates are n / MutDen, n in 0 .. MutDen; random() draws n / MutDen, n < MutDen
MutDen == 2
\* term_limit given to the constructor, in units of 10^-(2*hist_granularity)
TermLimit == 20
GridSteps == 3

VARIABLES
    uniq_dht,   \* Population._uniq_dht : key -> Individual
    bf,         \* Population._bf : the set of bits set in the filter
    pc,         \* position of the driver: "idle", "populate", "select", "breed"
    todo,       \* keys of the poor_fit individuals _select_parents still has to visit
    parents,    \* keys of the parents list of next_generation
    count,      \* remaining iterations of the running loop (populate / breeding)
    args,       \* arguments of the running populate / next_generation call
    current_gen,\* the driver's generation counter
    calls,      \* number of direct calls of reify, evict, mutate, breed made
    op          \* the last call made or step taken, with its result

vars == <<uniq_dht, bf, pc, todo, parents, count, args, current_gen, calls, op>>

RandVals == {v \in RandLo .. (RandLo + NumVals - 1) : v >= min /\ v <= max}
Rates == {<<n, RateDen>> : n \in 1 .. RateDen}
MutationRates == {<<n, MutDen>> : n \in 0 .. MutDen}
RandomDraws == {<<n, MutDen>> : n \in 0 .. (MutDen - 1)}

(***************************************************************************)
(* Helpers                                                                 *)
(***************************************************************************)
RECURSIVE SumSeq(_)
SumSeq(s) == IF s = <<>> THEN 0 ELSE Head(s) + SumSeq(Tail(s))

Abs(n) == IF n < 0 THEN 0 - n ELSE n

RECURSIVE Pow10(_)
Pow10(n) == IF n = 0 THEN 1 ELSE 10 * Pow10(n - 1)

RECURSIVE Insert(_, _)
Insert(v, s) ==
    IF s = <<>> THEN <<v>>
    ELSE IF v <= Head(s) THEN <<v>> \o s
    ELSE <<Head(s)>> \o Insert(v, Tail(s))

\* sorted(list): a new list, ascending
RECURSIVE Sorted(_)
Sorted(s) == IF s = <<>> THEN <<>> ELSE Insert(Head(s), Sorted(Tail(s)))

IsSorted(s) == \A i \in 1 .. (Len(s) - 1) : s[i] <= s[i + 1]

Put(d, k, v) == [x \in (DOMAIN d) \cup {k} |-> IF x = k THEN v ELSE d[x]]
Del(d, k) == [x \in (DOMAIN d) \ {k} |-> d[x]]
Members(d) == {d[k] : k \in DOMAIN d}

(***************************************************************************)
(* class Individual                                                        *)
(***************************************************************************)
\* Individual.__init__
NewIndividual == [gen |-> <<>>, feature_set |-> <<>>, key |-> <<>>, fitness |-> <<>>]

\* Individual.get_json_feature_set: dumps(tuple(feature_set)), the list of the
\* integers in the order held
GetJsonFeatureSet(fs) == [json |-> fs]

\* Individual.get_unique_key: the digest of the JSON text (taken as collision free)
GetUniqueKey(fs) == [sha224 |-> GetJsonFeatureSet(fs)]

\* Individual.populate
IndivPopulate(indiv, gen, fs) ==
    [indiv EXCEPT !.gen = <<gen>>, !.feature_set = fs, !.key = GetUniqueKey(fs)]

\* Individual.generate_feature_set: every list it can return
FeatureSets == {Sorted(s) : s \in [1 .. length -> RandVals]}

\* Individual.calc_fitness: numerator of 1.0 - abs(sum - target) / float(target)
FitnessOf(fs) == target - Abs(SumSeq(fs) - target)
CalcFitness(indiv) == [indiv EXCEPT !.fitness = <<FitnessOf(indiv.feature_set)>>]

(***************************************************************************)
(* The approximate membership filter (BloomFilter, an imported component): *)
(* a key sets NumProbes bits; a key is reported seen when all of its bits  *)
(* are set.  No false negatives, possible false positives.                 *)
(***************************************************************************)
RECURSIVE WeightedSum(_, _, _)
WeightedSum(s, i, p) ==
    IF i > Len(s) THEN 0 ELSE (i + p) * s[i] + WeightedSum(s, i + 1, p)

BloomProbes(key) ==
    {WeightedSum(key.sha224.json, 1, p) % NumBits : p \in 1 .. NumProbes}

\* key in self._bf
BloomContains(b, key) == BloomProbes(key) \subseteq b

\* self._bf.update([key])
BloomUpdate(b, key) == b \cup BloomProbes(key)

(***************************************************************************)
(* class Population: the operations as functions of the population state   *)
(* P = [dht, bf]                                                           *)
(***************************************************************************)
\* Population.__init__
NewPopulation == [dht |-> <<>>, bf |-> {}]

\* reify that forgets to record the key in the filter
ReifyWithoutFilterUpdate(P, indiv) ==
    IF ~ BloomContains(P.bf, indiv.key)
    THEN LET born == CalcFitness(indiv)
         IN  [pop |-> [dht |-> Put(P.dht, born.key, born), bf |-> P.bf],
              indiv |-> born,
              ret |-> TRUE]
    ELSE [pop |-> P, indiv |-> indiv, ret |-> FALSE]

\* reify that computes the fitness before it consults the filter
ReifyFitnessFirst(P, indiv) ==
    LET born == CalcFitness(indiv)
    IN  IF ~ BloomContains(P.bf, born.key)
        THEN [pop |-> [dht |-> Put(P.dht, born.key, born),
                       bf |-> BloomUpdate(P.bf, born.key)],
              indiv |-> born,
              ret |-> TRUE]
        ELSE [pop |-> P, indiv |-> born, ret |-> FALSE]

\* Population.reify: the population after the call, the individual after the
\* call and the value returned
Reify(P, indiv) ==
    IF ~ BloomContains(P.bf, indiv.key)
    THEN LET born == CalcFitness(indiv)
         IN  [pop |-> [dht |-> Put(P.dht, born.key, born),
                       bf |-> BloomUpdate(P.bf, born.key)],
              indiv |-> born,
              ret |-> TRUE]
    ELSE [pop |-> P, indiv |-> indiv, ret |-> FALSE]

\* evict that empties the store
EvictRemovesAll(P, indiv) ==
    IF indiv.key \in DOMAIN P.dht
    THEN [P EXCEPT !.dht = NewPopulation.dht]
    ELSE P

\* Population.evict
\* evict that also takes the individual's key out of the filter
EvictForgetsKey(P, indiv) ==
    IF indiv.key \in DOMAIN P.dht
    THEN [dht |-> Del(P.dht, indiv.key), bf |-> P.bf \ BloomProbes(indiv.key)]
    ELSE P

Evict(P, indiv) ==
    IF indiv.key \in DOMAIN P.dht
    THEN [P EXCEPT !.dht = Del(P.dht, indiv.key)]
    ELSE P

\* the effect of writing one element of self's own list: an individual held
\* in the store is the same object, so the store sees the write
WriteBack(P, before, after) ==
    IF before.key \in DOMAIN P.dht /\ P.dht[before.key] = before
    THEN [P EXCEPT !.dht = Put(P.dht, before.key, after)]
    ELSE P

\* mutate that evicts its prior self whatever reify returned
MutateAlwaysEvicts(P, self, gen, pos, val) ==
    LET mutated_feature_set == [self.feature_set EXCEPT ![pos + 1] = val]
        selfAfter == [self EXCEPT !.feature_set = mutated_feature_set]
        P1 == WriteBack(P, self, selfAfter)
        mutant == IndivPopulate(NewIndividual, gen, Sorted(mutated_feature_set))
        r == Reify(P1, mutant)
    IN  [pop |-> Evict(r.pop, selfAfter),
         self |-> selfAfter,
         other |-> r.indiv,
         ret |-> r.ret]

\* Individual.mutate with pos_to_mutate = pos (0-based) and the new value val:
\* mutated_feature_set is the list self._feature_set itself, so the element
\* assignment writes into self
Mutate(P, self, gen, pos, val) ==
    LET mutated_feature_set == [self.feature_set EXCEPT ![pos + 1] = val]
        selfAfter == [self EXCEPT !.feature_set = mutated_feature_set]
        P1 == WriteBack(P, self, selfAfter)
        mutant == IndivPopulate(NewIndividual, gen, Sorted(mutated_feature_set))
        r == Reify(P1, mutant)
    IN  [pop |-> IF r.ret THEN Evict(r.pop, selfAfter) ELSE r.pop,
         self |-> selfAfter,
         other |-> r.indiv,
         ret |-> r.ret]

\* breed that removes the mate once the child is accepted
BreedEvictsMate(P, self, gen, mate) ==
    LET half == Len(self.feature_set) \div 2
        tail == SubSeq(self.feature_set, half + 1, Len(self.feature_set))
        head == SubSeq(mate.feature_set, 1, half)
        child == IndivPopulate(NewIndividual, gen, Sorted(tail \o head))
        r == Reify(P, child)
    IN  [pop |-> IF r.ret THEN Evict(r.pop, mate) ELSE r.pop,
         self |-> self, other |-> r.indiv, ret |-> r.ret]

\* Individual.breed: half = len / 2; child of self's tail and the mate's head
Breed(P, self, gen, mate) ==
    LET half == Len(self.feature_set) \div 2
        tail == SubSeq(self.feature_set, half + 1, Len(self.feature_set))
        head == SubSeq(mate.feature_set, 1, half)
        child == IndivPopulate(NewIndividual, gen, Sorted(tail \o head))
        r == Reify(P, child)
    IN  [pop |-> r.pop, self |-> self, other |-> r.indiv, ret |-> r.ret]

\* round(fitness, hist_granularity), scaled by 10^hist_granularity: the nearest
\* multiple of 10^-hist_granularity (with target = 231 no fitness other than
\* -1, 0 and 1 lies on or halfway between two multiples, so the float
\* arithmetic agrees with the exact one)
RoundFitness(n) ==
    (2 * Pow10(hist_granularity) * n + target) \div (2 * target)

RECURSIVE SortDesc(_)
SortDesc(S) ==
    IF S = {} THEN <<>>
    ELSE LET m == CHOOSE x \in S : \A y \in S : y <= x
         IN  <<m>> \o SortDesc(S \ {m})

RECURSIVE SortAsc(_)
SortAsc(S) ==
    IF S = {} THEN <<>>
    ELSE LET m == CHOOSE x \in S : \A y \in S : x <= y
         IN  <<m>> \o SortAsc(S \ {m})

\* dict(Counter(...)).items() for the rounded fitness values, in the given order
Tally(dht, order) ==
    [i \in 1 .. Len(order) |->
        <<order[i],
          Cardinality({k \in DOMAIN dht : RoundFitness(dht[k].fitness[1]) = order[i]})>>]

\* get_part_hist that sorts without reverse=True
GetPartHistAscending(dht) ==
    Tally(dht, SortAsc({RoundFitness(dht[k].fitness[1]) : k \in DOMAIN dht}))

\* Population.get_part_hist: the (bin, count) pairs, bins descending
GetPartHist(dht) ==
    Tally(dht, SortDesc({RoundFitness(dht[k].fitness[1]) : k \in DOMAIN dht}))

\* percentile >= selection_rate, with percentile = sum / float(n_pop)
PercentileReached(sum, rate) == sum * rate[2] >= rate[1] * NPop

\* the loop with "break" taken as soon as the percentile reaches the rate
RECURSIVE CutoffLoopBreakAtOnce(_, _, _, _, _, _)
CutoffLoopBreakAtOnce(hist, i, sum, break_next, bin, rate) ==
    IF i > Len(hist) THEN bin
    ELSE IF PercentileReached(sum + hist[i][2], rate) THEN <<hist[i][1]>>
    ELSE CutoffLoopBreakAtOnce(hist, i + 1, sum + hist[i][2], FALSE, <<hist[i][1]>>, rate)

\* the loop of get_fitness_cutoff from its i-th iteration on; bin is <<>>
\* while the loop variable is unbound
RECURSIVE CutoffLoop(_, _, _, _, _, _)
CutoffLoop(hist, i, sum, break_next, bin, rate) ==
    IF i > Len(hist) THEN bin
    ELSE IF break_next THEN <<hist[i][1]>>
    ELSE CutoffLoop(hist, i + 1, sum + hist[i][2],
                    PercentileReached(sum + hist[i][2], rate), <<hist[i][1]>>, rate)

\* Population.get_fitness_cutoff: the value returned, or the error raised by
\* "return bin" when the loop variable was never bound
GetFitnessCutoff(dht, rate) ==
    LET bin == CutoffLoop(GetPartHist(dht), 1, 0, FALSE, <<>>, rate)
    IN  IF bin = <<>> THEN [ret |-> <<>>, err |-> "UnboundLocalError"]
        ELSE [ret |-> bin, err |-> ""]

\* x.fitness > fitness_cutoff
\* the partition with fitness >= fitness_cutoff on the fit side
GoodFitIncludesCutoff(indiv, cutoff) ==
    indiv.fitness[1] * Pow10(hist_granularity) >= cutoff * target

IsGoodFit(indiv, cutoff) == indiv.fitness[1] * Pow10(hist_granularity) > cutoff * target

\* the error sum taken over bin ** 2 instead of (1.0 - bin) ** 2
SquaredBinsTimesNPop(dht) ==
    LET hist == GetPartHist(dht)
        RECURSIVE Acc(_)
        Acc(i) == IF i > Len(hist) THEN 0
                  ELSE hist[i][2] * hist[i][1] * hist[i][1] + Acc(i + 1)
    IN  Acc(1)

\* Population.test_termination: mse <= term_limit, mse in units of
\* 10^-(2*hist_granularity)
MseTimesNPop(dht) ==
    LET hist == GetPartHist(dht)
        RECURSIVE Acc(_)
        Acc(i) == IF i > Len(hist) THEN 0
                  ELSE hist[i][2] * (Pow10(hist_granularity) - hist[i][1])
                                  * (Pow10(hist_granularity) - hist[i][1]) + Acc(i + 1)
    IN  Acc(1)
TestTermination(dht) == MseTimesNPop(dht) <= TermLimit * NPop

(***************************************************************************)
(* The state machine: one call of the driver at a time; the loops of       *)
(* populate and next_generation advance one iteration per step             *)
(***************************************************************************)
Pop == [dht |-> uniq_dht, bf |-> bf]
Size(dht) == Cardinality(DOMAIN dht)
NoRate == <<0, 1>>
NoArgs == [gen |-> 0, cutoff |-> 0, mutation_rate |-> NoRate, pool |-> 0, rejected |-> FALSE,
           start |-> NewPopulation.dht, kept |-> {}]

\* the record of a call: its name, the individual it was made on before and
\* after the call, the other individual involved (mutant, child), the boolean
\* returned, the value returned, the error raised ("" for none), the rate given
Op(name, self, after, other, ret, val, err, rate) ==
    [name |-> name, self |-> self, after |-> after, other |-> other,
     ret |-> ret, val |-> val, err |-> err, rate |-> rate]
PlainOp(name) == Op(name, NewIndividual, NewIndividual, NewIndividual, FALSE, <<>>, "", NoRate)

\* a newly constructed and populated individual
Fresh(gen, fs) == IndivPopulate(NewIndividual, gen, fs)
FreshIndividuals == {Fresh(current_gen, fs) : fs \in FeatureSets}

\* mutation_rate > random()
RateExceeds(rate, draw) == rate[1] * draw[2] > draw[1] * rate[2]

Init ==
    /\ uniq_dht = NewPopulation.dht
    /\ bf = NewPopulation.bf
    /\ pc = "new"
    /\ todo = {}
    /\ parents = {}
    /\ count = 0
    /\ args = NoArgs
    /\ current_gen = 0
    /\ calls = 0
    /\ op = PlainOp("init")

Callable == pc \in {"new", "idle"}
LoopsIdle == UNCHANGED <<todo, parents, count, args, current_gen>>
DirectCall == Callable /\ calls < MaxCalls /\ calls' = calls + 1

\* Population.populate, entry: the loop runs n_pop times
PopulateStart ==
    /\ pc = "new"
    /\ pc' = IF NPop > 0 THEN "populate" ELSE "idle"
    /\ count' = NPop
    /\ args' = [NoArgs EXCEPT !.gen = current_gen]
    /\ op' = PlainOp("populate")
    /\ UNCHANGED <<uniq_dht, bf, todo, parents, current_gen, calls>>

\* Population.populate, one iteration: generate, populate and reify an individual
PopulateStep ==
    /\ pc = "populate"
    /\ count > 0
    /\ \E fs \in FeatureSets :
          LET indiv == Fresh(args.gen, fs)
              r == Reify(Pop, indiv)
          IN  /\ uniq_dht' = r.pop.dht
              /\ bf' = r.pop.bf
              /\ op' = Op("populate_reify", indiv, r.indiv, NewIndividual, r.ret, <<>>, "", NoRate)
    /\ count' = count - 1
    /\ pc' = IF count = 1 THEN "idle" ELSE "populate"
    /\ UNCHANGED <<todo, parents, args, current_gen, calls>>

\* a direct call of Population.reify on a new individual or on a member
DoReify(indiv) ==
    /\ DirectCall
    /\ LET r == Reify(Pop, indiv)
       IN  /\ uniq_dht' = r.pop.dht
           /\ bf' = r.pop.bf
           /\ op' = Op("reify", indiv, r.indiv, NewIndividual, r.ret, <<>>, "", NoRate)
    /\ pc' = "idle"
    /\ LoopsIdle

\* a direct call of Population.evict
DoEvict(indiv) ==
    /\ DirectCall
    /\ LET P1 == Evict(Pop, indiv)
       IN  /\ uniq_dht' = P1.dht
           /\ bf' = P1.bf
           /\ op' = Op("evict", indiv, indiv, NewIndividual, FALSE, <<>>, "", NoRate)
    /\ pc' = "idle"
    /\ LoopsIdle

\* a direct call of Individual.mutate on a member
DoMutate(self, pos, val) ==
    /\ DirectCall
    /\ LET r == Mutate(Pop, self, current_gen, pos, val)
       IN  /\ uniq_dht' = r.pop.dht
           /\ bf' = r.pop.bf
           /\ op' = Op("mutate", self, r.self, r.other, r.ret, <<>>, "", NoRate)
    /\ pc' = "idle"
    /\ LoopsIdle

\* a direct call of Individual.breed on a member, with a member as mate
DoBreed(self, mate) ==
    /\ DirectCall
    /\ LET r == Breed(Pop, self, current_gen, mate)
       IN  /\ uniq_dht' = r.pop.dht
           /\ bf' = r.pop.bf
           /\ op' = Op("breed", self, r.self, r.other, r.ret, <<>>, "", NoRate)
    /\ pc' = "idle"
    /\ LoopsIdle

\* Population.get_fitness_cutoff
DoGetFitnessCutoff(rate) ==
    /\ Callable
    /\ LET r == GetFitnessCutoff(uniq_dht, rate)
       IN  op' = Op("get_fitness_cutoff", NewIndividual, NewIndividual, NewIndividual,
                    FALSE, r.ret, r.err, rate)
    /\ pc' = "idle"
    /\ UNCHANGED <<uniq_dht, bf, calls>>
    /\ LoopsIdle

\* Population.get_part_hist
DoGetPartHist ==
    /\ Callable
    /\ op' = Op("get_part_hist", NewIndividual, NewIndividual, NewIndividual,
                FALSE, GetPartHist(uniq_dht), "", NoRate)
    /\ pc' = "idle"
    /\ UNCHANGED <<uniq_dht, bf, calls>>
    /\ LoopsIdle

\* Population.test_termination
DoTestTermination ==
    /\ Callable
    /\ op' = Op("test_termination", NewIndividual, NewIndividual, NewIndividual,
                TestTermination(uniq_dht), <<>>, "", NoRate)
    /\ pc' = "idle"
    /\ UNCHANGED <<uniq_dht, bf, calls>>
    /\ LoopsIdle

\* Population.next_generation, entry into _select_parents: the members are
\* partitioned by x.fitness > fitness_cutoff; the cutoff is one the driver
\* obtained from get_fitness_cutoff
NextGenerationStart(selection_rate, mutation_rate) ==
    /\ Callable
    /\ current_gen < MaxGen
    /\ uniq_dht # NewPopulation.dht
    /\ LET cutoff == GetFitnessCutoff(uniq_dht, selection_rate).ret[1]
       IN  /\ todo' = {k \in DOMAIN uniq_dht : ~ IsGoodFit(uniq_dht[k], cutoff)}
           /\ args' = [gen |-> current_gen, cutoff |-> cutoff, mutation_rate |-> mutation_rate,
                       pool |-> 0, rejected |-> FALSE, start |-> uniq_dht, kept |-> {}]
    /\ pc' = "select"
    /\ op' = PlainOp("select_parents")
    /\ UNCHANGED <<uniq_dht, bf, parents, count, current_gen, calls>>

\* Population._boost_diversity on one individual of poor_fit
BoostDiversity(k, draw, pos, val) ==
    /\ pc = "select"
    /\ k \in todo
    /\ IF RateExceeds(args.mutation_rate, draw)
       THEN LET r == Mutate(Pop, uniq_dht[k], args.gen, pos, val)
            IN  /\ uniq_dht' = r.pop.dht
                /\ bf' = r.pop.bf
                /\ op' = Op("mutate", uniq_dht[k], r.self, r.other, r.ret, <<>>, "", NoRate)
                /\ args' = [args EXCEPT !.kept = IF r.ret THEN args.kept ELSE args.kept \cup {k}]
       ELSE LET P1 == Evict(Pop, uniq_dht[k])
            IN  /\ uniq_dht' = P1.dht
                /\ bf' = P1.bf
                /\ op' = Op("evict", uniq_dht[k], uniq_dht[k], NewIndividual, FALSE, <<>>, "", NoRate)
                /\ UNCHANGED args
    /\ todo' = todo \ {k}
    /\ UNCHANGED <<pc, parents, count, current_gen, calls>>

\* one sample more than the places left: xrange(self.n_pop - len(parents) + 1)
SampleCountOneExtra(n_parents) == IF NPop - n_parents + 1 > 0 THEN NPop - n_parents + 1 ELSE 0

\* len(xrange(self.n_pop - len(parents)))
SampleCount(n_parents) == IF NPop - n_parents > 0 THEN NPop - n_parents ELSE 0

\* _select_parents returns the members left; next_generation draws its
\* n_pop - len(parents) samples: sample(parents, 2) raises ValueError when
\* fewer than two parents are left
SelectParentsReturn ==
    /\ pc = "select"
    /\ todo = {}
    /\ parents' = DOMAIN uniq_dht
    /\ IF SampleCount(Size(uniq_dht)) > 0 /\ Size(uniq_dht) < 2
       THEN /\ pc' = "idle"
            /\ count' = 0
            /\ args' = [NoArgs EXCEPT !.pool = Size(uniq_dht)]
            /\ current_gen' = current_gen + 1
            /\ op' = Op("next_generation", NewIndividual, NewIndividual, NewIndividual,
                        FALSE, <<>>, "ValueError", NoRate)
       ELSE /\ pc' = "breed"
            /\ count' = SampleCount(Size(uniq_dht))
            /\ op' = PlainOp("sample")
            /\ current_gen' = current_gen
            /\ args' = [args EXCEPT !.pool = Size(uniq_dht)]
    /\ UNCHANGED <<uniq_dht, bf, todo, calls>>

\* next_generation, one iteration: f.breed(self, current_gen, m) for a sample (f, m)
BreedStep(f, m) ==
    /\ pc = "breed"
    /\ count > 0
    /\ f \in parents /\ m \in parents /\ f # m
    /\ LET r == Breed(Pop, uniq_dht[f], args.gen, uniq_dht[m])
       IN  /\ uniq_dht' = r.pop.dht
           /\ bf' = r.pop.bf
           /\ op' = Op("breed", uniq_dht[f], r.self, r.other, r.ret, <<>>, "", NoRate)
           /\ args' = [args EXCEPT !.rejected = args.rejected \/ ~ r.ret]
    /\ count' = count - 1
    /\ UNCHANGED <<pc, todo, parents, current_gen, calls>>

\* next_generation returns
NextGenerationReturn ==
    /\ pc = "breed"
    /\ count = 0
    /\ pc' = "idle"
    /\ op' = Op("next_generation", NewIndividual, NewIndividual, NewIndividual,
                TRUE, <<>>, "", NoRate)
    /\ current_gen' = current_gen + 1
    /\ args' = [NoArgs EXCEPT !.pool = args.pool, !.rejected = args.rejected]
    /\ UNCHANGED <<uniq_dht, bf, todo, parents, count, calls>>

AllKeys == {GetUniqueKey(fs) : fs \in FeatureSets}

\* the driver's run: populate once, then generations, with queries in between
Next ==
    \/ PopulateStart
    \/ PopulateStep
    \/ \E rate \in Rates : DoGetFitnessCutoff(rate)
    \/ DoGetPartHist
    \/ DoTestTermination
    \/ \E sr \in Rates, mr \in MutationRates : NextGenerationStart(sr, mr)
    \/ \E k \in todo, draw \in RandomDraws, pos \in 0 .. (length - 1), val \in RandVals :
          BoostDiversity(k, draw, pos, val)
    \/ SelectParentsReturn
    \/ \E f \in parents, m \in parents : BreedStep(f, m)
    \/ NextGenerationReturn

Spec == Init /\ [][Next]_vars

\* the individual the caller has just evicted and still holds
LastEvicted == IF op.name = "evict" THEN {op.self} ELSE {}

\* direct calls of the operations on a population, populated or not
NextCalls ==
    \/ PopulateStart
    \/ PopulateStep
    \/ \E indiv \in FreshIndividuals \cup Members(uniq_dht) : DoReify(indiv)
    \/ \E indiv \in FreshIndividuals \cup Members(uniq_dht) \cup LastEvicted : DoEvict(indiv)
    \/ \E self \in Members(uniq_dht), pos \in 0 .. (length - 1), val \in RandVals :
          DoMutate(self, pos, val)
    \/ \E self \in Members(uniq_dht), mate \in Members(uniq_dht) : DoBreed(self, mate)
    \/ \E rate \in Rates : DoGetFitnessCutoff(rate)
    \/ DoGetPartHist
    \/ DoTestTermination

SpecCalls == Init /\ [][NextCalls]_vars

(***************************************************************************)
(* Properties                                                              *)
(***************************************************************************)
ReifyCalls == {"reify", "populate_reify"}
IsEmpty(dht) == DOMAIN dht = {}

\* TypeOK: the shape of the state
TypeOK ==
    /\ DOMAIN uniq_dht \subseteq AllKeys
    /\ \A k \in DOMAIN uniq_dht : uniq_dht[k].key = k /\ uniq_dht[k].fitness # <<>>
    /\ bf \subseteq 0 .. (NumBits - 1)
    /\ pc \in {"new", "idle", "populate", "select", "breed"}
    /\ todo \subseteq DOMAIN uniq_dht
    /\ pc = "breed" => parents \subseteq DOMAIN uniq_dht
    /\ count \in 0 .. NPop
    /\ current_gen \in 0 .. MaxGen
    /\ calls \in 0 .. MaxCalls
    /\ DOMAIN args.start \subseteq AllKeys
    /\ args.kept \subseteq DOMAIN args.start

\* C1: when a reify of an individual returned true, a reify issued right after
\* it for an individual with the same fingerprint (the same individual or
\* another one built from the same feature set) returns false and leaves the
\* exact store as it was.
C1_IdempotentAdmission ==
    [][(/\ op.name \in ReifyCalls
        /\ op.ret
        /\ op'.name \in ReifyCalls
        /\ op'.self.key = op.self.key)
       => (~ op'.ret /\ uniq_dht' = uniq_dht)]_vars

\* the second iteration of populate drew the feature set of the first one: the
\* first reify was accepted, the second one is rejected
C1_Witness ==
    /\ op.name = "populate_reify"
    /\ count = NPop - 2
    /\ ~ op.ret
    /\ DOMAIN uniq_dht = {op.self.key}

\* C2: the feature set of an individual never changes once its fingerprint is
\* computed: mutate and breed leave the individual they are called on as it
\* was, and every member's key is the fingerprint of the feature set it holds.
C2_FeatureSetNeverChanges ==
    /\ op.name \in {"mutate", "breed"} => op.after.feature_set = op.self.feature_set
    /\ \A k \in DOMAIN uniq_dht : k = GetUniqueKey(uniq_dht[k].feature_set)

\* C3: two members of the exact store that hold identical feature sets have
\* the same fingerprint, that is, they are one entry of the store.
C3_UniqueMembers ==
    \A k1 \in DOMAIN uniq_dht, k2 \in DOMAIN uniq_dht :
        uniq_dht[k1].feature_set = uniq_dht[k2].feature_set => k1 = k2

\* C4: mutate called on a member evicts it only when the mutant was reified:
\* afterwards either the mutant is a member and the individual is not, or the
\* individual still is a member and the key set is unchanged; the size of the
\* store is the same in both cases.
C4_MutateReplaces ==
    [][(op'.name = "mutate" /\ op'.self.key \in DOMAIN uniq_dht)
       => (/\ Size(uniq_dht') = Size(uniq_dht)
           /\ \/ /\ op'.ret
                 /\ op'.other.key \in DOMAIN uniq_dht'
                 /\ op'.self.key \notin DOMAIN uniq_dht'
              \/ /\ ~ op'.ret
                 /\ op'.self.key \in DOMAIN uniq_dht'
                 /\ DOMAIN uniq_dht' = DOMAIN uniq_dht)]_vars

\* a mutant was accepted and took the place of the individual mutated
C4_Witness ==
    /\ op.name = "mutate"
    /\ op.ret
    /\ op.other.key \in DOMAIN uniq_dht
    /\ op.self.key \notin DOMAIN uniq_dht

\* C5: a reify of an individual whose fingerprint the filter reports as seen
\* returns false and changes neither the exact store, nor the filter, nor the
\* individual; its fitness is not computed.
C5_RejectionHasNoEffect ==
    [][(op'.name \in ReifyCalls /\ BloomContains(bf, op'.self.key))
       => (/\ ~ op'.ret
           /\ uniq_dht' = uniq_dht
           /\ bf' = bf
           /\ op'.after = op'.self
           /\ op'.self.fitness = <<>> => op'.after.fitness = <<>>)]_vars

\* a new individual was rejected by a false positive of the filter: its key is
\* not in the store and its fitness is unset
C5_Witness ==
    /\ op.name = "populate_reify"
    /\ ~ op.ret
    /\ op.self.key \notin DOMAIN uniq_dht
    /\ op.after.fitness = <<>>

RECURSIVE CumCount(_, _)
CumCount(hist, i) == IF i = 0 THEN 0 ELSE hist[i][2] + CumCount(hist, i - 1)

\* the bins at which the cumulative count over n_pop has reached the rate
ReachingBins(hist, rate) ==
    {i \in 1 .. Len(hist) : PercentileReached(CumCount(hist, i), rate)}
FirstReaching(hist, rate) ==
    CHOOSE i \in ReachingBins(hist, rate) : \A j \in ReachingBins(hist, rate) : i <= j

\* C6 as claimed: get_fitness_cutoff returns the value of the first bin, in
\* descending order, at which the cumulative fraction reaches the rate.
C6_CutoffIsFirstReachingBin ==
    (/\ op.name = "get_fitness_cutoff"
     /\ ~ IsEmpty(uniq_dht)
     /\ ReachingBins(GetPartHist(uniq_dht), op.rate) # {})
    => LET hist == GetPartHist(uniq_dht)
       IN  op.val = <<hist[FirstReaching(hist, op.rate)][1]>>

\* C6 amended: get_fitness_cutoff returns the value of the bin that follows, in
\* descending order, the first bin at which the cumulative count divided by
\* n_pop reaches the rate; it returns the last bin when that bin is the last
\* one or when no bin reaches the rate.
C6_CutoffIsBinAfterFirstReaching ==
    (op.name = "get_fitness_cutoff" /\ ~ IsEmpty(uniq_dht))
    => LET hist == GetPartHist(uniq_dht)
           reached == ReachingBins(hist, op.rate)
           i == IF reached = {} \/ FirstReaching(hist, op.rate) = Len(hist)
                THEN Len(hist)
                ELSE FirstReaching(hist, op.rate) + 1
       IN  op.err = "" /\ op.val = <<hist[i][1]>>

\* the rate was reached before the last bin: the bin returned is the next one
C6_Witness ==
    /\ op.name = "get_fitness_cutoff"
    /\ ~ IsEmpty(uniq_dht)
    /\ LET hist == GetPartHist(uniq_dht)
       IN  /\ ReachingBins(hist, op.rate) # {}
           /\ FirstReaching(hist, op.rate) < Len(hist)
           /\ op.val = <<hist[FirstReaching(hist, op.rate) + 1][1]>>

RateGeq(a, b) == a[1] * b[2] >= b[1] * a[2]

\* C7 as claimed: on an unchanged population a larger selection rate gives a
\* cutoff that is at least as large.
C7_CutoffGrowsWithRate ==
    (op.name = "get_fitness_cutoff" /\ ~ IsEmpty(uniq_dht))
    => \A r \in Rates :
          RateGeq(r, op.rate) => GetFitnessCutoff(uniq_dht, r).ret[1] >= op.val[1]

\* C7 amended: on an unchanged population a larger selection rate gives a
\* cutoff that is at most as large.
C7_CutoffFallsWithRate ==
    (op.name = "get_fitness_cutoff" /\ ~ IsEmpty(uniq_dht))
    => \A r \in Rates :
          RateGeq(r, op.rate) => GetFitnessCutoff(uniq_dht, r).ret[1] <= op.val[1]

\* a larger rate gives a strictly smaller cutoff on the same population
C7_Witness ==
    /\ op.name = "get_fitness_cutoff"
    /\ ~ IsEmpty(uniq_dht)
    /\ \E r \in Rates :
          RateGeq(r, op.rate) /\ GetFitnessCutoff(uniq_dht, r).ret[1] < op.val[1]

\* C8: after next_generation, when the parent pool left by _select_parents
\* had at most n_pop members and no child was rejected as a duplicate, the
\* exact store holds n_pop members.
C8_GenerationSizeStable ==
    (/\ op.name = "next_generation"
     /\ args.pool <= NPop
     /\ ~ args.rejected)
    => Size(uniq_dht) = NPop

\* the same for the calls of next_generation that return: every one of the
\* n_pop - len(parents) children adds one new key
GenerationSizeStableOnReturn ==
    (/\ op.name = "next_generation"
     /\ op.err = ""
     /\ args.pool <= NPop
     /\ ~ args.rejected)
    => Size(uniq_dht) = NPop

\* C9: next_generation, called on a non-empty population with a cutoff from
\* get_fitness_cutoff and a mutation rate in [0, 1], ends without an error.
C9_NextGenerationIsTotal ==
    op.name = "next_generation" => op.err = ""

\* C10: on an empty exact store get_part_hist, get_fitness_cutoff and
\* test_termination each end in an explicit empty-population error and return
\* no result.
C10_EmptyPopulationFailsFast ==
    (/\ op.name \in {"get_part_hist", "get_fitness_cutoff", "test_termination"}
     /\ IsEmpty(uniq_dht))
    => op.err # ""

\* C11: breed never evicts: every entry of the exact store before the call is
\* in it, unchanged, after the call, and the store grows by the child when
\* reify accepted it and by nothing otherwise.
C11_BreedIsAdditive ==
    [][op'.name = "breed"
       => (/\ \A k \in DOMAIN uniq_dht :
                 k \in DOMAIN uniq_dht' /\ uniq_dht'[k] = uniq_dht[k]
           /\ Size(uniq_dht') <= Size(uniq_dht) + 1
           /\ DOMAIN uniq_dht' =
                 IF op'.ret THEN DOMAIN uniq_dht \cup {op'.other.key} ELSE DOMAIN uniq_dht
           /\ op'.after = op'.self)]_vars

\* a child was accepted and both the individual bred and the rest are members
C11_Witness ==
    /\ op.name = "breed"
    /\ op.ret
    /\ op.other.key \in DOMAIN uniq_dht
    /\ op.self.key \in DOMAIN uniq_dht
    /\ Size(uniq_dht) >= 3

\* C12: evict removes the entry keyed by the individual's fingerprint when it
\* is present and does nothing when it is absent, without an error; every
\* other entry and the filter are unchanged; evicting the same individual
\* again changes nothing.
C12_EvictRemovesExactlyOne ==
    [][op'.name = "evict"
       => (/\ op'.err = ""
           /\ DOMAIN uniq_dht' = DOMAIN uniq_dht \ {op'.self.key}
           /\ \A k \in DOMAIN uniq_dht' : uniq_dht'[k] = uniq_dht[k]
           /\ op'.self.key \notin DOMAIN uniq_dht => uniq_dht' = uniq_dht
           /\ (op.name = "evict" /\ op.self = op'.self) => uniq_dht' = uniq_dht)]_vars

\* a member was evicted by a direct call and the other members are still there
C12_Witness ==
    /\ op.name = "evict"
    /\ calls > 0
    /\ op.self.fitness # <<>>
    /\ op.self.key \notin DOMAIN uniq_dht
    /\ Size(uniq_dht) >= 2

\* C13: in every state the counts of get_part_hist() add up to the number of
\* entries of the exact store and its bins are strictly descending; a call
\* of get_part_hist returns that histogram.
C13_HistogramConservation ==
    LET hist == GetPartHist(uniq_dht)
    IN  /\ CumCount(hist, Len(hist)) = Size(uniq_dht)
        /\ \A i \in 1 .. (Len(hist) - 1) : hist[i][1] > hist[i + 1][1]
        /\ \A i \in 1 .. Len(hist) : hist[i][2] >= 1
        /\ op.name = "get_part_hist" => op.val = hist

\* get_part_hist returned several bins, one of them holding several members
C13_Witness ==
    /\ op.name = "get_part_hist"
    /\ Len(op.val) >= 2
    /\ \E i \in 1 .. Len(op.val) : op.val[i][2] >= 2

\* the squared error of every member's rounded fitness, summed member by member
RECURSIVE MemberErrorSum(_, _)
MemberErrorSum(dht, keys) ==
    IF keys = {} THEN 0
    ELSE LET k == CHOOSE x \in keys : TRUE
             e == Pow10(hist_granularity) - RoundFitness(dht[k].fitness[1])
         IN  e * e + MemberErrorSum(dht, keys \ {k})

\* C14: test_termination returns true exactly when the mean squared error,
\* the sum over the bins of count * (1 - bin)^2 divided by n_pop, is at most
\* term_limit; it changes neither the exact store nor the filter.
C14_TerminationIffMseWithinLimit ==
    [][op'.name = "test_termination"
       => (/\ op'.ret = (MemberErrorSum(uniq_dht, DOMAIN uniq_dht) <= TermLimit * NPop)
           /\ op'.err = ""
           /\ uniq_dht' = uniq_dht
           /\ bf' = bf)]_vars

\* test_termination reported convergence of a population of several members
C14_Witness ==
    /\ op.name = "test_termination"
    /\ op.ret
    /\ Size(uniq_dht) >= 2
    /\ MemberErrorSum(uniq_dht, DOMAIN uniq_dht) > 0

\* a member of the store at the start of next_generation whose fitness is
\* strictly greater than the cutoff passed to the call
FitAtStart(k) ==
    args.start[k].fitness[1] * Pow10(hist_granularity) > args.cutoff * target

\* C16: next_generation only touches the unfit side. When the call ends,
\* every member whose fitness was strictly greater than the cutoff at the
\* start is still a member with the same feature set; every member whose
\* fitness was <= the cutoff is gone (evicted outright, or replaced by its
\* accepted mutant, which is a member) unless its mutant was rejected.
C16_OnlyUnfitSideTouched ==
    [][/\ op'.name = "next_generation"
          => \A k \in DOMAIN args.start :
                IF FitAtStart(k)
                THEN /\ k \in DOMAIN uniq_dht'
                     /\ uniq_dht'[k].feature_set = args.start[k].feature_set
                ELSE k \in DOMAIN uniq_dht' => k \in args.kept
       /\ (pc = "select" /\ op'.name = "evict")
          => /\ ~ FitAtStart(op'.self.key)
             /\ op'.self.key \notin DOMAIN uniq_dht'
       /\ (pc = "select" /\ op'.name = "mutate")
          => /\ ~ FitAtStart(op'.self.key)
             /\ IF op'.ret
                THEN /\ op'.self.key \notin DOMAIN uniq_dht'
                     /\ op'.other.key \in DOMAIN uniq_dht'
                ELSE op'.self.key \in DOMAIN uniq_dht']_vars

\* a call about to return that kept a fit member, removed an unfit one and
\* kept another unfit one whose mutant was rejected
C16_Witness ==
    /\ pc = "breed"
    /\ count = 0
    /\ \E k \in DOMAIN args.start : FitAtStart(k) /\ k \in DOMAIN uniq_dht
    /\ \E k \in DOMAIN args.start : ~ FitAtStart(k) /\ k \notin DOMAIN uniq_dht
    /\ \E k \in args.kept : k \in DOMAIN uniq_dht

\* C17: in every reachable state the feature_set of every individual held in
\* the exact store is in non-decreasing sorted order.
C17_MembersAreSorted ==
    \A k \in DOMAIN uniq_dht : IsSorted(uniq_dht[k].feature_set)

\* C18: in every reachable state every member of the exact store has the
\* fitness 1 - |sum(feature_set) - target| / target of its current feature_set.
C18_FitnessMatchesFeatureSet ==
    \A k \in DOMAIN uniq_dht :
        /\ uniq_dht[k].fitness # <<>>
        /\ uniq_dht[k].fitness[1] = target - Abs(SumSeq(uniq_dht[k].feature_set) - target)

\* C19: the filter only grows and always covers the store. Every key of the
\* store is reported as seen; no operation, evict included, makes the filter
\* forget a key; a key that was admitted and then evicted is rejected by a
\* later reify; a reify that returns true adds one new key and overwrites
\* no entry.
C19_FilterGrowsAndCoversStore ==
    [][/\ \A k \in DOMAIN uniq_dht' : BloomContains(bf', k)
       /\ bf \subseteq bf'
       /\ \A k \in AllKeys : BloomContains(bf, k) => BloomContains(bf', k)
       /\ op'.name \in ReifyCalls
          => /\ BloomContains(bf, op'.self.key) => ~ op'.ret
             /\ (op.name = "evict" /\ op.self.fitness # <<>> /\ op.self.key = op'.self.key)
                   => ~ op'.ret
             /\ op'.ret
                   => /\ op'.self.key \notin DOMAIN uniq_dht
                      /\ DOMAIN uniq_dht' = DOMAIN uniq_dht \cup {op'.self.key}
                      /\ Size(uniq_dht') = Size(uniq_dht) + 1
                      /\ \A k \in DOMAIN uniq_dht : uniq_dht'[k] = uniq_dht[k]
             /\ ~ op'.ret => uniq_dht' = uniq_dht]_vars

\* a direct reify of a key that is no longer in the store, made after an
\* eviction, was rejected although the store had room for it
C19_Witness ==
    /\ op.name = "reify"
    /\ calls = MaxCalls
    /\ ~ op.ret
    /\ op.self.key \notin DOMAIN uniq_dht
    /\ BloomContains(bf, op.self.key)
    /\ Size(uniq_dht) = NPop - 1

\* C20: in a run of populate followed by next_generation calls (with cutoff
\* and termination queries in between) the store holds at most n_pop
\* members after populate and after every completed next_generation (and in
\* every state between), and no step of the pruning / mutation loop of
\* _select_parents makes the store larger.
C20_PopulationBound ==
    [][/\ Size(uniq_dht') <= NPop
       /\ (op'.name = "populate_reify" /\ pc' = "idle") => Size(uniq_dht') <= NPop
       /\ (op'.name = "next_generation" /\ op'.ret) => Size(uniq_dht') <= NPop
       /\ (pc = "select" /\ pc' = "select") => Size(uniq_dht') <= Size(uniq_dht)
       /\ (pc = "select" /\ pc' # "select") => uniq_dht' = uniq_dht]_vars

\* a completed next_generation that pruned the store and bred it back to n_pop
C20_Witness ==
    /\ op.name = "next_generation"
    /\ op.ret
    /\ args.pool < NPop
    /\ Size(uniq_dht) = NPop

\* ---- Individual alone: feature sets over the whole range [min, max] ----

\* values spread over [min, max], both ends included
GridVals == {min + (i * (max - min)) \div GridSteps : i \in 0 .. GridSteps}

\* Individual.generate_feature_set: a sorted list of `length` draws of randint(min, max)
GenerateFeatureSet == {Sorted(s) : s \in [1 .. length -> GridVals]}

\* Individual().populate(gen, generate_feature_set())
GenerateIndividual ==
    /\ op.name = "init"
    /\ \E fs \in GenerateFeatureSet :
          op' = [PlainOp("generate_feature_set") EXCEPT
                    !.self = IndivPopulate(NewIndividual, 0, fs)]
    /\ UNCHANGED <<uniq_dht, bf, pc, todo, parents, count, args, current_gen, calls>>

\* indiv.calc_fitness()
DoCalcFitness ==
    /\ op.name = "generate_feature_set"
    /\ op' = [PlainOp("calc_fitness") EXCEPT !.self = op.self, !.after = CalcFitness(op.self)]
    /\ UNCHANGED <<uniq_dht, bf, pc, todo, parents, count, args, current_gen, calls>>

NextFitness ==
    \/ GenerateIndividual
    \/ DoCalcFitness

SpecFitness == Init /\ [][NextFitness]_vars

\* C15: calc_fitness yields a fitness in [0.0, 1.0] for every feature set of
\* `length` integers within [min, max]; the fitness is fitness[1] / target.
C15_FitnessInUnitRange ==
    op.name = "calc_fitness"
        => /\ op.after.fitness[1] >= 0
           /\ op.after.fitness[1] <= target

====
